---- MODULE Spec2Model ----
(***************************************************************************)
(* Customer Health Intelligence Dashboard: the health scoring engine       *)
(* (CustomerHealthScorer, backend/server.py) and the churn explanation     *)
(* step of get_churn_predictions.                                          *)
(*                                                                         *)
(* Numbers.  Python floats are modelled as exact fixed-point decimals:     *)
(*   - scores are integers in units of 1/Scale of a point,                 *)
(*   - money (total_spent, lifetime_value) is in cents,                    *)
(*   - avg_rating and every value passed through round(x, 2) is in         *)
(*     hundredths,                                                         *)
(*   - instants are in ticks, TicksPerDay ticks to a day, tick 0 being     *)
(*     midnight of the evaluation day.                                     *)
(* round(x, 2) is round-half-to-even on the exact value.                   *)
(*                                                                         *)
(* Python values.  A dict entry is a record [t, v]: t is the type of the   *)
(* value ("missing" when the key is absent, "null" for None) and v its     *)
(* numeric content.  A call's outcome is a record [exc, val]: exc is       *)
(* "none" when the call returned val, else the exception raised.           *)
(***************************************************************************)
EXTENDS Integers, Sequences, FiniteSets

\* ------------------------------------------------------------------ bounds
\* Ticks per day: resolution of the time of day.
TicksPerDay == 2
\* At most this many fields of a record are absent, None or of a wrong type.
MaxIrregular == 1

\* Units per score point; a multiple of 30 and of 10000 so that days/30 and
\* cents/100 are exact.
Scale == 30 * 1000

\* --------------------------------------------------------- Python values
Missing == [t |-> "missing", v |-> 0]
Null == [t |-> "null", v |-> 0]
Str == [t |-> "str", v |-> 0]
Num(n) == [t |-> "num", v |-> n]
DateTime(i) == [t |-> "datetime", v |-> i]
Date(i) == [t |-> "date", v |-> i]
IsoStr(i) == [t |-> "isostr", v |-> i]
BadStr == [t |-> "badstr", v |-> 0]

Returned(x) == [exc |-> "none", val |-> x]
Raised(e) == [exc |-> e, val |-> 0]

\* --------------------------------------------------------- input domains
\* last orders this many days before the evaluation day (-1: tomorrow), at any
\* tick of the day
DaysAgo == {-1, 0, 29, 90, 91}
Instants == {(0 - k) * TicksPerDay + s : k \in DaysAgo, s \in 0..(TicksPerDay - 1)}
Midnights == {0, (0 - 91) * TicksPerDay}
StrInstants == {0, TicksPerDay - 1, (0 - 91) * TicksPerDay}
\* the evaluation instant: midnight of the evaluation day
NowValues == {0}

OrderCounts == {0, 1, 2, 13}
SpentCents == {0, 49960, 250000}
TicketCounts == {0, 3, 4, 11}
Ratings == {0, 299, 300, 500}

IrregularValues == {Missing, Null, Str}
TotalOrdersValues == {Num(n) : n \in OrderCounts} \cup IrregularValues
TotalSpentValues == {Num(n) : n \in SpentCents} \cup IrregularValues
SupportTicketsValues == {Num(n) : n \in TicketCounts} \cup IrregularValues
AvgRatingValues == {Num(n) : n \in Ratings} \cup IrregularValues
LastOrderDateValues ==
    {Missing, Null, BadStr, Num(7)}
        \cup {DateTime(i) : i \in Instants}
        \cup {Date(i) : i \in Midnights}
        \cup {IsoStr(i) : i \in StrInstants}

NumericFields == {"total_orders", "total_spent", "support_tickets", "avg_rating"}

Irregular(c) ==
    Cardinality({f \in NumericFields : c[f].t # "num"})
        + (IF c.last_order_date.t \in {"badstr", "num"} THEN 1 ELSE 0)

\* ------------------------------------------------------------ arithmetic
Max(a, b) == IF a >= b THEN a ELSE b
Min(a, b) == IF a <= b THEN a ELSE b

\* q + r / d (0 <= r < d) rounded to the nearest integer, ties to the even one
RoundQR(q, r, d) ==
    IF 2 * r < d THEN q
    ELSE IF 2 * r > d THEN q + 1
    ELSE IF q % 2 = 0 THEN q ELSE q + 1

\* round(n / d) to the nearest integer, ties to the even one
RoundHalfEven(n, d) == RoundQR(n \div d, n % d, d)

\* quotient and remainder of a * b by d, one decimal digit of a at a time, so
\* that no intermediate value leaves the 32-bit integers of the checker
RECURSIVE MulDivMod(_, _, _)
MulDivMod(a, b, d) ==
    IF a = 0 THEN [q |-> 0, r |-> 0]
    ELSE LET h == MulDivMod(a \div 10, b, d)
             n == 10 * h.r + (a % 10) * b
         IN  [q |-> 10 * h.q + n \div d, r |-> n % d]

\* round(x, 2) of a score: units of 1/Scale to hundredths
Round2(x) == RoundHalfEven(x * 100, Scale)

\* dict.get(key, default)
dict_get(d, key, default) == IF d[key].t = "missing" THEN default ELSE d[key]

\* truthiness of a Python value
Truthy(x) ==
    CASE x.t \in {"missing", "null"} -> FALSE
      [] x.t = "num" -> x.v # 0
      [] OTHER -> TRUE

\* ------------------------------------------------- CustomerHealthScorer
\* mutant of days_since_last_order: no order counts as ordered today
days_since_last_order_default_today(last_order_date, now) ==
    IF ~Truthy(last_order_date) THEN Returned(0)
    ELSE IF last_order_date.t = "badstr" THEN Raised("ValueError")
    ELSE IF last_order_date.t = "isostr"
        THEN Returned((now - last_order_date.v) \div TicksPerDay)
    ELSE IF last_order_date.t \in {"datetime", "date"}
        THEN Returned((now - (last_order_date.v - (last_order_date.v % TicksPerDay)))
                        \div TicksPerDay)
    ELSE Raised("TypeError")

days_since_last_order(last_order_date, now) ==
    IF ~Truthy(last_order_date) THEN Returned(365)
    ELSE IF last_order_date.t = "badstr" THEN Raised("ValueError")
    ELSE IF last_order_date.t = "isostr"
        THEN Returned((now - last_order_date.v) \div TicksPerDay)
    ELSE IF last_order_date.t \in {"datetime", "date"}
        THEN Returned((now - (last_order_date.v - (last_order_date.v % TicksPerDay)))
                        \div TicksPerDay)
    ELSE Raised("TypeError")


\* customer_data.get('last_order_date'): None when the key is absent
last_order_date_of(customer_data) == dict_get(customer_data, "last_order_date", Null)

\* Recency Score: max(0, 30 - (last_order_days / 30) * 30)
recency_score(customer_data, now) ==
    LET last_order_days == days_since_last_order(last_order_date_of(customer_data), now)
    IN  IF last_order_days.exc # "none" THEN last_order_days
        ELSE Returned(Max(0, 30 * Scale - ((last_order_days.val * Scale) \div 30) * 30))

\* mutant of frequency_score: the cap of 25 forgotten
frequency_score_uncapped(customer_data) ==
    LET total_orders == dict_get(customer_data, "total_orders", Num(0))
    IN  IF total_orders.t # "num" THEN Raised("TypeError")
        ELSE Returned(total_orders.v * 2 * Scale)

\* Frequency Score: min(25, total_orders * 2); None * 2 is a TypeError, and so
\* is min(25, s) for a string s
frequency_score(customer_data) ==
    LET total_orders == dict_get(customer_data, "total_orders", Num(0))
    IN  IF total_orders.t # "num" THEN Raised("TypeError")
        ELSE Returned(Min(25 * Scale, total_orders.v * 2 * Scale))

\* Monetary Score: min(25, total_spent / 100), total_spent in cents
monetary_score(customer_data) ==
    LET total_spent == dict_get(customer_data, "total_spent", Num(0))
    IN  IF total_spent.t # "num" THEN Raised("TypeError")
        ELSE Returned(Min(25 * Scale, total_spent.v * (Scale \div 10000)))

\* mutant of support_score: the inversion forgotten, tickets add points
support_score_not_inverted(customer_data) ==
    LET support_tickets == dict_get(customer_data, "support_tickets", Num(0))
    IN  IF support_tickets.t # "num" THEN Raised("TypeError")
        ELSE Returned(Min(10 * Scale, support_tickets.v * Scale))

\* Support Score: max(0, 10 - support_tickets)
support_score(customer_data) ==
    LET support_tickets == dict_get(customer_data, "support_tickets", Num(0))
    IN  IF support_tickets.t # "num" THEN Raised("TypeError")
        ELSE Returned(Max(0, 10 * Scale - support_tickets.v * Scale))

\* Rating Score: avg_rating * 2, avg_rating in hundredths.  For a string the
\* TypeError is raised one statement later, by the sum of the sub-scores.
rating_score(customer_data) ==
    LET avg_rating == dict_get(customer_data, "avg_rating", Num(0))
    IN  IF avg_rating.t # "num" THEN Raised("TypeError")
        ELSE Returned((avg_rating.v * 2 * Scale) \div 100)

\* Determine churn risk, from the unrounded total
churn_risk_of(total_score) ==
    IF total_score >= 70 * Scale THEN "Low"
    ELSE IF total_score >= 40 * Scale THEN "Medium"
    ELSE "High"

\* round(total_spent * (1 + total_score / 100), 2), in cents
lifetime_value_of(total_spent, total_score) ==
    LET p == MulDivMod(total_spent, 100 * Scale + total_score, 100 * Scale)
    IN  RoundQR(p.q, p.r, 100 * Scale)

BreakdownKeys == {"recency", "frequency", "monetary", "support", "rating"}
EmptyDict == [k \in {} |-> 0]

\* the dict returned by the except branch
FallbackAssessment ==
    [health_score |-> 0, churn_risk |-> "High", lifetime_value |-> 0,
     score_breakdown |-> EmptyDict]

\* the statements inside the try block, in order; the first exception ends it
try_body(customer_data, now) ==
    LET rec == recency_score(customer_data, now)
        fre == frequency_score(customer_data)
        mon == monetary_score(customer_data)
        sup == support_score(customer_data)
        rat == rating_score(customer_data)
    IN  IF rec.exc # "none" THEN rec
        ELSE IF fre.exc # "none" THEN fre
        ELSE IF mon.exc # "none" THEN mon
        ELSE IF sup.exc # "none" THEN sup
        ELSE IF rat.exc # "none" THEN rat
        ELSE
            LET total_score == rec.val + fre.val + mon.val + sup.val + rat.val
                sub == [recency |-> rec.val, frequency |-> fre.val,
                        monetary |-> mon.val, support |-> sup.val,
                        rating |-> rat.val]
            IN  Returned(
                  [health_score |-> Round2(total_score),
                   churn_risk |-> churn_risk_of(total_score),
                   lifetime_value |->
                       lifetime_value_of(
                           dict_get(customer_data, "total_spent", Num(0)).v,
                           total_score),
                   score_breakdown |-> [k \in BreakdownKeys |-> Round2(sub[k])]])

\* mutant of except_clause: except ValueError, a TypeError propagates
except_only_ValueError(outcome) ==
    IF outcome.exc = "ValueError"
        THEN Returned(FallbackAssessment)
        ELSE outcome

\* except Exception: ValueError and TypeError are both caught
except_clause(outcome) ==
    IF outcome.exc \in {"ValueError", "TypeError"}
        THEN Returned(FallbackAssessment)
        ELSE outcome

calculate_health_score(customer_data, now) ==
    except_clause(try_body(customer_data, now))


\* ------------------------------------------------ get_churn_predictions
LowPurchaseFrequency == "Low purchase frequency"
HighSupportTicketVolume == "High support ticket volume"
LowProductSatisfaction == "Low product satisfaction"
NoRecentPurchases == "No recent purchases"

Range(seq) == {seq[i] : i \in 1..Len(seq)}

\* mutant of key_factors_of: days_since >= 90 for days_since > 90
key_factors_of_from_90_days(customer, now) ==
    LET total_orders == dict_get(customer, "total_orders", Num(0))
        support_tickets == dict_get(customer, "support_tickets", Num(0))
        avg_rating == dict_get(customer, "avg_rating", Num(0))
        last_order_date == dict_get(customer, "last_order_date", Null)
    IN  IF total_orders.t # "num" THEN Raised("TypeError")
        ELSE IF support_tickets.t # "num" THEN Raised("TypeError")
        ELSE IF avg_rating.t # "num" THEN Raised("TypeError")
        ELSE IF Truthy(last_order_date) /\ last_order_date.t # "datetime"
            THEN Raised("TypeError")
        ELSE Returned(
            (IF total_orders.v < 2 THEN <<LowPurchaseFrequency>> ELSE <<>>)
            \o (IF support_tickets.v > 3 THEN <<HighSupportTicketVolume>> ELSE <<>>)
            \o (IF avg_rating.v < 300 THEN <<LowProductSatisfaction>> ELSE <<>>)
            \o (IF Truthy(last_order_date)
                   /\ (now - last_order_date.v) \div TicksPerDay >= 90
                THEN <<NoRecentPurchases>> ELSE <<>>))

\* the four triggers, in source order; a comparison of None or of a string
\* with a number is a TypeError, and so is datetime.now() minus anything but
\* a datetime
key_factors_of(customer, now) ==
    LET total_orders == dict_get(customer, "total_orders", Num(0))
        support_tickets == dict_get(customer, "support_tickets", Num(0))
        avg_rating == dict_get(customer, "avg_rating", Num(0))
        last_order_date == dict_get(customer, "last_order_date", Null)
    IN  IF total_orders.t # "num" THEN Raised("TypeError")
        ELSE IF support_tickets.t # "num" THEN Raised("TypeError")
        ELSE IF avg_rating.t # "num" THEN Raised("TypeError")
        ELSE IF Truthy(last_order_date) /\ last_order_date.t # "datetime"
            THEN Raised("TypeError")
        ELSE Returned(
            (IF total_orders.v < 2 THEN <<LowPurchaseFrequency>> ELSE <<>>)
            \o (IF support_tickets.v > 3 THEN <<HighSupportTicketVolume>> ELSE <<>>)
            \o (IF avg_rating.v < 300 THEN <<LowProductSatisfaction>> ELSE <<>>)
            \o (IF Truthy(last_order_date)
                   /\ (now - last_order_date.v) \div TicksPerDay > 90
                THEN <<NoRecentPurchases>> ELSE <<>>))

\* mutant of recommendations_of: the last two appends in the other order
recommendations_of_reordered(key_factors) ==
    (IF LowPurchaseFrequency \in Range(key_factors)
        THEN <<"Send personalized product recommendations">> ELSE <<>>)
    \o (IF HighSupportTicketVolume \in Range(key_factors)
        THEN <<"Assign dedicated account manager">> ELSE <<>>)
    \o (IF NoRecentPurchases \in Range(key_factors)
        THEN <<"Send re-engagement campaign with discount">> ELSE <<>>)
    \o (IF LowProductSatisfaction \in Range(key_factors)
        THEN <<"Offer product training or alternatives">> ELSE <<>>)

\* Generate recommendations
recommendations_of(key_factors) ==
    (IF LowPurchaseFrequency \in Range(key_factors)
        THEN <<"Send personalized product recommendations">> ELSE <<>>)
    \o (IF HighSupportTicketVolume \in Range(key_factors)
        THEN <<"Assign dedicated account manager">> ELSE <<>>)
    \o (IF LowProductSatisfaction \in Range(key_factors)
        THEN <<"Offer product training or alternatives">> ELSE <<>>)
    \o (IF NoRecentPurchases \in Range(key_factors)
        THEN <<"Send re-engagement campaign with discount">> ELSE <<>>)

\* round((100 - health_score) / 100, 2), health_score in hundredths
churn_probability_of(health_score) == RoundHalfEven(10000 - health_score, 100)

\* the body of the loop over the customers found: one ChurnPrediction
churn_prediction(customer, health, now) ==
    LET key_factors == key_factors_of(customer, now)
    IN  IF key_factors.exc # "none" THEN key_factors
        ELSE Returned(
            [churn_probability |-> churn_probability_of(health.health_score),
             key_factors |-> key_factors.val,
             recommended_actions |-> recommendations_of(key_factors.val)])

\* --------------------------------------------------------------- state
VARIABLES
    customer_data,  \* the customer record: the five activity fields
    now,            \* datetime.now(), the evaluation instant
    assessment,     \* outcome of calculate_health_score on customer_data
    response        \* response of the last churn-predictions request

vars == <<customer_data, now, assessment, response>>

VARIABLES
    db,          \* the four MongoDB collections, each a set of documents
    generating,  \* the POST /api/generate-sample-data request of each client
    metrics,     \* the GET /api/dashboard/metrics request
    details,     \* the GET /api/customers/{customer_id} request
    predictions  \* the GET /api/analytics/churn-predictions request

requests == <<generating, metrics, details, predictions>>
allvars == <<vars, db, requests>>

Unscored == [exc |-> "unscored", val |-> 0]
NoResponse == [status |-> 0, predictions |-> <<>>]

\* the customer dict as the generator first builds it
NewCustomer ==
    [total_orders |-> Num(0), total_spent |-> Num(0), last_order_date |-> Null,
     support_tickets |-> Num(0), avg_rating |-> Num(0)]

\* the clients that can have a generate-sample-data request in flight
Clients == {"a", "b"}

\* no request made yet
Idle == [pc |-> "idle", num_customers |-> 0, customers |-> <<>>, status |-> 0]

\* the collections before any data is generated
NoDocuments ==
    [customers |-> {}, orders |-> {}, support_tickets |-> {}, feedback |-> {}]

NoDetails ==
    [customer |-> Null, orders |-> {}, support_tickets |-> {}, feedback |-> {}]

Init ==
    /\ customer_data = NewCustomer
    /\ now \in NowValues
    /\ assessment = Unscored
    /\ response = NoResponse
    /\ db = NoDocuments
    /\ generating = [client \in Clients |-> Idle]
    /\ metrics = [pc |-> "idle", total_customers |-> 0, high_risk |-> 0,
                  medium_risk |-> 0, low_risk |-> 0, status |-> 0,
                  body |-> <<>>]
    /\ details = [pc |-> "idle", customer_id |-> <<>>, status |-> 0,
                  detail |-> "", body |-> NoDetails]
    /\ predictions = [limit |-> 0, status |-> 0, body |-> <<>>]

\* health_data = health_scorer.calculate_health_score(customer);
\* customer.update(health_data)
Score(customer) ==
    /\ Irregular(customer) <= MaxIrregular
    /\ customer_data' = customer
    /\ assessment' = calculate_health_score(customer, now)
    /\ response' = NoResponse
    /\ UNCHANGED <<now, db, requests>>

UpdateTotalOrders ==
    \E x \in TotalOrdersValues :
        Score([customer_data EXCEPT !.total_orders = x])

UpdateTotalSpent ==
    \E x \in TotalSpentValues :
        Score([customer_data EXCEPT !.total_spent = x])

UpdateLastOrderDate ==
    \E x \in LastOrderDateValues :
        Score([customer_data EXCEPT !.last_order_date = x])

UpdateSupportTickets ==
    \E x \in SupportTicketsValues :
        Score([customer_data EXCEPT !.support_tickets = x])

UpdateAvgRating ==
    \E x \in AvgRatingValues :
        Score([customer_data EXCEPT !.avg_rating = x])

\* GET /api/analytics/churn-predictions over the stored customer
get_churn_predictions ==
    /\ assessment.exc = "none"
    /\ response' =
        IF assessment.val.churn_risk # "High"
            THEN [status |-> 200, predictions |-> <<>>]
        ELSE LET p == churn_prediction(customer_data, assessment.val, now)
             IN  IF p.exc = "none"
                    THEN [status |-> 200, predictions |-> <<p.val>>]
                    ELSE [status |-> 500, predictions |-> <<>>]
    /\ UNCHANGED <<customer_data, now, assessment, db, requests>>

Next ==
    \/ UpdateTotalOrders
    \/ UpdateTotalSpent
    \/ UpdateLastOrderDate
    \/ UpdateSupportTickets
    \/ UpdateAvgRating
    \/ get_churn_predictions

\* ------------------------------------------------------------ the store
MaxCustomers == 3
MaxLimit == 2

\* customers as the generator's loop can leave them before scoring: never
\* ordered; lapsed; steady; loyal
Lapsed ==
    [total_orders |-> Num(2), total_spent |-> Num(49960),
     last_order_date |-> DateTime((0 - 91) * TicksPerDay),
     support_tickets |-> Num(4), avg_rating |-> Num(200)]

Steady ==
    [total_orders |-> Num(2), total_spent |-> Num(49960),
     last_order_date |-> DateTime(0),
     support_tickets |-> Num(3), avg_rating |-> Num(300)]

Loyal ==
    [total_orders |-> Num(13), total_spent |-> Num(250000),
     last_order_date |-> DateTime(0),
     support_tickets |-> Num(0), avg_rating |-> Num(500)]

Generated == <<NewCustomer, Lapsed, Steady, Loyal>>

\* the draws of one run of the loop, up to the order of the customers
Draws(num_customers) ==
    {d \in [1..num_customers -> 1..Len(Generated)] :
        \A i \in 1..(num_customers - 1) : d[i] <= d[i + 1]}

\* customer.update(health_data): the customer document that is stored
Customer(customer_id, customer) ==
    LET health_data == calculate_health_score(customer, now).val
    IN  [customer_id |-> customer_id,
         total_orders |-> customer.total_orders,
         total_spent |-> customer.total_spent,
         last_order_date |-> customer.last_order_date,
         support_tickets |-> customer.support_tickets,
         avg_rating |-> customer.avg_rating,
         health_score |-> health_data.health_score,
         churn_risk |-> health_data.churn_risk,
         lifetime_value |-> health_data.lifetime_value,
         score_breakdown |-> health_data.score_breakdown]

\* the customers list of one run; uuid4 ids are unique per client and index
CustomersOf(client, draw) ==
    [i \in 1..Len(draw) |-> Customer(<<client, i>>, Generated[draw[i]])]

\* the orders, tickets and feedback lists, one document standing for all the
\* documents of a customer: a customer has orders exactly when it has a
\* last_order_date, tickets when support_tickets > 0, feedback when it has
\* a rating
OrdersOf(batch) ==
    {[customer_id |-> c.customer_id] :
        c \in {x \in Range(batch) : x.last_order_date.t # "null"}}

TicketsOf(batch) ==
    {[customer_id |-> c.customer_id] :
        c \in {x \in Range(batch) : x.support_tickets.v > 0}}

FeedbackOf(batch) ==
    {[customer_id |-> c.customer_id] :
        c \in {x \in Range(batch) : x.avg_rating.v > 0}}

\* the four insert_many calls in order, each skipped when its list is empty;
\* after the last one the generator returns True and the endpoint answers 200
AfterInsert(batch, done) ==
    IF done < 1 /\ Len(batch) > 0 THEN "insert_customers"
    ELSE IF done < 2 /\ OrdersOf(batch) # {} THEN "insert_orders"
    ELSE IF done < 3 /\ TicketsOf(batch) # {} THEN "insert_tickets"
    ELSE IF done < 4 /\ FeedbackOf(batch) # {} THEN "insert_feedback"
    ELSE "done"

Proceed(client, done) ==
    LET pc == AfterInsert(generating[client].customers, done)
    IN  generating' = [generating EXCEPT
            ![client].pc = pc,
            ![client].status = IF pc = "done" THEN 200 ELSE 0]

\* except Exception in the generator: return False, and the endpoint raises
\* HTTPException(500)
InsertFails(client) ==
    /\ generating' = [generating EXCEPT ![client].pc = "done",
                                        ![client].status = 500]
    /\ UNCHANGED db

\* await db.customers.delete_many({}), the first step of the endpoint
delete_customers(client) ==
    /\ generating[client].pc = "idle"
    /\ \E num_customers \in 0..MaxCustomers :
        generating' = [generating EXCEPT ![client] =
            [pc |-> "delete_orders", num_customers |-> num_customers,
             customers |-> <<>>, status |-> 0]]
    /\ db' = [db EXCEPT !.customers = {}]
    /\ UNCHANGED <<vars, metrics, details, predictions>>

\* await db.orders.delete_many({})
delete_orders(client) ==
    /\ generating[client].pc = "delete_orders"
    /\ generating' = [generating EXCEPT ![client].pc = "delete_tickets"]
    /\ db' = [db EXCEPT !.orders = {}]
    /\ UNCHANGED <<vars, metrics, details, predictions>>

\* await db.support_tickets.delete_many({})
delete_support_tickets(client) ==
    /\ generating[client].pc = "delete_tickets"
    /\ generating' = [generating EXCEPT ![client].pc = "delete_feedback"]
    /\ db' = [db EXCEPT !.support_tickets = {}]
    /\ UNCHANGED <<vars, metrics, details, predictions>>

\* await db.feedback.delete_many({}), then the generator's loop, which runs
\* without awaiting up to the first insert_many
delete_feedback(client) ==
    /\ generating[client].pc = "delete_feedback"
    /\ \E draw \in Draws(generating[client].num_customers) :
        LET batch == CustomersOf(client, draw)
            pc == AfterInsert(batch, 0)
        IN  generating' = [generating EXCEPT
                ![client].customers = batch,
                ![client].pc = pc,
                ![client].status = IF pc = "done" THEN 200 ELSE 0]
    /\ db' = [db EXCEPT !.feedback = {}]
    /\ UNCHANGED <<vars, metrics, details, predictions>>

\* await db.customers.insert_many(customers)
insert_customers(client) ==
    /\ generating[client].pc = "insert_customers"
    /\ \/ /\ db' = [db EXCEPT !.customers =
                        @ \cup Range(generating[client].customers)]
          /\ Proceed(client, 1)
       \/ InsertFails(client)
    /\ UNCHANGED <<vars, metrics, details, predictions>>

\* await db.orders.insert_many(orders)
insert_orders(client) ==
    /\ generating[client].pc = "insert_orders"
    /\ \/ /\ db' = [db EXCEPT !.orders =
                        @ \cup OrdersOf(generating[client].customers)]
          /\ Proceed(client, 2)
       \/ InsertFails(client)
    /\ UNCHANGED <<vars, metrics, details, predictions>>

\* await db.support_tickets.insert_many(tickets)
insert_support_tickets(client) ==
    /\ generating[client].pc = "insert_tickets"
    /\ \/ /\ db' = [db EXCEPT !.support_tickets =
                        @ \cup TicketsOf(generating[client].customers)]
          /\ Proceed(client, 3)
       \/ InsertFails(client)
    /\ UNCHANGED <<vars, metrics, details, predictions>>

\* await db.feedback.insert_many(feedback)
insert_feedback(client) ==
    /\ generating[client].pc = "insert_feedback"
    /\ \/ /\ db' = [db EXCEPT !.feedback =
                        @ \cup FeedbackOf(generating[client].customers)]
          /\ Proceed(client, 4)
       \/ InsertFails(client)
    /\ UNCHANGED <<vars, metrics, details, predictions>>

\* POST /api/generate-sample-data, one database call at a time
generate_sample_data(client) ==
    \/ delete_customers(client)
    \/ delete_orders(client)
    \/ delete_support_tickets(client)
    \/ delete_feedback(client)
    \/ insert_customers(client)
    \/ insert_orders(client)
    \/ insert_support_tickets(client)
    \/ insert_feedback(client)

NextGenerate == \E client \in Clients : generate_sample_data(client)

\* the scorer alone, on one customer record
Spec == Init /\ [][Next]_allvars

\* concurrent generate-sample-data requests
SpecGenerate == Init /\ [][NextGenerate]_allvars

\* ------------------------------------------------- get_customer_details
HTTPException(status_code, detail) ==
    [exc |-> "HTTPException",
     val |-> [status_code |-> status_code, detail |-> detail]]

\* mutant of details_except: without the clause that re-raises HTTPException
details_except_Exception_only(raised) ==
    [status_code |-> 500, detail |-> raised.exc]

\* except HTTPException: raise; except Exception as e: HTTPException(500)
details_except(raised) ==
    IF raised.exc = "HTTPException" THEN raised.val
    ELSE [status_code |-> 500, detail |-> raised.exc]

\* the ids a client can ask for: every id a generator can give out, and one
\* that no generator gives out
CustomerIds ==
    {<<client, i>> : client \in Clients, i \in 1..MaxCustomers}
        \cup {<<"invalid-id", 0>>}

\* customer = await db.customers.find_one({"customer_id": customer_id});
\* if not customer: raise HTTPException(404)
find_customer ==
    /\ details.pc \in {"idle", "done"}
    /\ \E customer_id \in CustomerIds :
        LET found == {c \in db.customers : c.customer_id = customer_id}
        IN  IF found = {}
            THEN LET error == details_except(
                                HTTPException(404, "Customer not found"))
                 IN  details' = [pc |-> "done", customer_id |-> customer_id,
                                 status |-> error.status_code,
                                 detail |-> error.detail, body |-> NoDetails]
            ELSE details' = [pc |-> "find_orders", customer_id |-> customer_id,
                             status |-> 0, detail |-> "",
                             body |-> [NoDetails EXCEPT
                                        !.customer = CHOOSE c \in found : TRUE]]
    /\ UNCHANGED <<vars, db, generating, metrics, predictions>>

\* orders = await db.orders.find({"customer_id": customer_id}).to_list()
find_orders ==
    /\ details.pc = "find_orders"
    /\ details' = [details EXCEPT
            !.pc = "find_tickets",
            !.body.orders =
                {o \in db.orders : o.customer_id = details.customer_id}]
    /\ UNCHANGED <<vars, db, generating, metrics, predictions>>

\* tickets = await db.support_tickets.find({...}).to_list()
find_support_tickets ==
    /\ details.pc = "find_tickets"
    /\ details' = [details EXCEPT
            !.pc = "find_feedback",
            !.body.support_tickets =
                {t \in db.support_tickets : t.customer_id = details.customer_id}]
    /\ UNCHANGED <<vars, db, generating, metrics, predictions>>

\* feedback = await db.feedback.find({...}).to_list(), then the response
find_feedback ==
    /\ details.pc = "find_feedback"
    /\ details' = [details EXCEPT
            !.pc = "done",
            !.status = 200,
            !.body.feedback =
                {f \in db.feedback : f.customer_id = details.customer_id}]
    /\ UNCHANGED <<vars, db, generating, metrics, predictions>>

\* GET /api/customers/{customer_id}, one database call at a time
get_customer_details ==
    \/ find_customer
    \/ find_orders
    \/ find_support_tickets
    \/ find_feedback

NextDetails ==
    \/ \E client \in {"a"} : generate_sample_data(client)
    \/ get_customer_details

\* customer-details requests next to one generate-sample-data request
SpecDetails == Init /\ [][NextDetails]_allvars

\* ----------------------------- get_churn_predictions over the collection
\* limit is any int of the query string
LimitValues == (0 - 1)..MaxLimit

\* mutant of find_high_risk: sort("health_score", -1)
find_high_risk_descending(stored, limit) ==
    LET high == {c \in stored : c.churn_risk = "High"}
        sorted == {s \in [1..Cardinality(high) -> high] :
                    /\ \A i, j \in DOMAIN s : s[i] = s[j] => i = j
                    /\ \A i, j \in DOMAIN s :
                        i < j => s[i].health_score >= s[j].health_score}
    IN  {SubSeq(s, 1, Min(limit, Len(s))) : s \in sorted}

\* find({"churn_risk": "High"}).sort("health_score", 1).limit(limit) and
\* to_list(length=limit): the lists the database may answer with, customers
\* of equal health_score coming in any order
find_high_risk(stored, limit) ==
    LET high == {c \in stored : c.churn_risk = "High"}
        sorted == {s \in [1..Cardinality(high) -> high] :
                    /\ \A i, j \in DOMAIN s : s[i] = s[j] => i = j
                    /\ \A i, j \in DOMAIN s :
                        i < j => s[i].health_score <= s[j].health_score}
    IN  {SubSeq(s, 1, Min(limit, Len(s))) : s \in sorted}

\* the whole handler: its one database call, then one ChurnPrediction per
\* customer found; to_list raises ValueError for a negative length, and any
\* exception becomes a 500
get_stored_churn_predictions ==
    /\ \E limit \in LimitValues :
        IF limit < 0
        THEN predictions' = [limit |-> limit, status |-> 500, body |-> <<>>]
        ELSE \E found \in find_high_risk(db.customers, limit) :
            LET explained ==
                    [i \in DOMAIN found |->
                        churn_prediction(found[i], found[i], now)]
            IN  IF \E i \in DOMAIN found : explained[i].exc # "none"
                THEN predictions' =
                        [limit |-> limit, status |-> 500, body |-> <<>>]
                ELSE predictions' =
                        [limit |-> limit, status |-> 200,
                         body |-> [i \in DOMAIN found |->
                            [customer_id |-> found[i].customer_id,
                             churn_probability |->
                                explained[i].val.churn_probability,
                             key_factors |-> explained[i].val.key_factors,
                             recommended_actions |->
                                explained[i].val.recommended_actions]]]
    /\ UNCHANGED <<vars, db, generating, metrics, details>>

NextPredictions ==
    \/ \E client \in {"a"} : generate_sample_data(client)
    \/ get_stored_churn_predictions

\* churn-predictions requests next to one generate-sample-data request
SpecPredictions == Init /\ [][NextPredictions]_allvars

\* ------------------------------------------------ get_dashboard_metrics
\* count_documents({"churn_risk": churn_risk}) on the customers collection
count_documents(churn_risk) ==
    Cardinality({c \in db.customers : c.churn_risk = churn_risk})

\* the sum of a numeric field over a set of documents, by $group
RECURSIVE sum_of(_, _)
sum_of(documents, field) ==
    IF documents = {} THEN 0
    ELSE LET c == CHOOSE x \in documents : TRUE
         IN  (IF field = "total_spent" THEN c.total_spent.v
              ELSE c.lifetime_value) + sum_of(documents \ {c}, field)

\* round((high_risk / total_customers * 100) if total_customers > 0 else 0, 2)
\* in hundredths of a percent
churn_rate_of(high_risk, total_customers) ==
    IF total_customers > 0
        THEN RoundHalfEven(high_risk * 10000, total_customers)
        ELSE 0

\* total_customers = await db.customers.count_documents({})
count_total ==
    /\ metrics.pc \in {"idle", "done"}
    /\ metrics' = [pc |-> "count_high",
                   total_customers |-> Cardinality(db.customers),
                   high_risk |-> 0, medium_risk |-> 0, low_risk |-> 0,
                   status |-> 0, body |-> <<>>]
    /\ UNCHANGED <<vars, db, generating, details, predictions>>

\* high_risk = await db.customers.count_documents({"churn_risk": "High"})
count_high ==
    /\ metrics.pc = "count_high"
    /\ metrics' = [metrics EXCEPT !.pc = "count_medium",
                                  !.high_risk = count_documents("High")]
    /\ UNCHANGED <<vars, db, generating, details, predictions>>

\* medium_risk = await db.customers.count_documents({"churn_risk": "Medium"})
count_medium ==
    /\ metrics.pc = "count_medium"
    /\ metrics' = [metrics EXCEPT !.pc = "count_low",
                                  !.medium_risk = count_documents("Medium")]
    /\ UNCHANGED <<vars, db, generating, details, predictions>>

\* low_risk = await db.customers.count_documents({"churn_risk": "Low"})
count_low ==
    /\ metrics.pc = "count_low"
    /\ metrics' = [metrics EXCEPT !.pc = "aggregate",
                                  !.low_risk = count_documents("Low")]
    /\ UNCHANGED <<vars, db, generating, details, predictions>>

\* result = await db.customers.aggregate(pipeline).to_list(length=1), then
\* the DashboardMetrics response
aggregate ==
    /\ metrics.pc = "aggregate"
    /\ metrics' = [metrics EXCEPT
            !.pc = "done",
            !.status = 200,
            !.body =
                [total_customers |-> metrics.total_customers,
                 high_risk_customers |-> metrics.high_risk,
                 medium_risk_customers |-> metrics.medium_risk,
                 low_risk_customers |-> metrics.low_risk,
                 total_revenue |-> sum_of(db.customers, "total_spent"),
                 avg_lifetime_value |->
                    IF db.customers = {} THEN 0
                    ELSE RoundHalfEven(sum_of(db.customers, "lifetime_value"),
                                       Cardinality(db.customers)),
                 churn_rate |-> churn_rate_of(metrics.high_risk,
                                              metrics.total_customers)]]
    /\ UNCHANGED <<vars, db, generating, details, predictions>>

\* GET /api/dashboard/metrics, one database call at a time
get_dashboard_metrics ==
    \/ count_total
    \/ count_high
    \/ count_medium
    \/ count_low
    \/ aggregate

NextMetrics ==
    \/ \E client \in {"a"} : generate_sample_data(client)
    \/ get_dashboard_metrics

\* dashboard-metrics requests next to one generate-sample-data request
SpecMetrics == Init /\ [][NextMetrics]_allvars


\* ============================================================== claims
Fields == NumericFields \cup {"last_order_date"}

\* calculate_health_score returned, and not from its except branch
NonFailing(a) == a.exc = "none" /\ DOMAIN a.val.score_breakdown = BreakdownKeys

\* every field present is of the type the scorer computes with
WellTyped(c) ==
    /\ \A f \in NumericFields : c[f].t \in {"num", "missing", "null"}
    /\ c.last_order_date.t \in {"missing", "null", "datetime", "date", "isostr"}

\* C1: on the non-failing path churn_risk is a step function of the returned,
\* rounded health_score: Low exactly when health_score >= 70, Medium exactly
\* when 40 <= health_score < 70, High exactly when health_score < 40.
C1_RiskIsStepOfReturnedScore ==
    NonFailing(assessment) =>
        LET a == assessment.val
        IN  /\ (a.churn_risk = "Low") <=> (a.health_score >= 7000)
            /\ (a.churn_risk = "Medium")
                   <=> (a.health_score >= 4000 /\ a.health_score < 7000)
            /\ (a.churn_risk = "High") <=> (a.health_score < 4000)

\* C2: whenever a step of the try block raises, the call returns (it does not
\* propagate the exception) exactly the fallback assessment: health_score 0,
\* churn_risk High, lifetime_value 0, empty score_breakdown.
C2_FailureFallsBackToHighRisk ==
    (assessment.exc # "unscored" /\ try_body(customer_data, now).exc # "none") =>
        /\ assessment.exc = "none"
        /\ assessment.val.health_score = 0
        /\ assessment.val.churn_risk = "High"
        /\ assessment.val.lifetime_value = 0
        /\ DOMAIN assessment.val.score_breakdown = {}

\* C2 witness: an unparseable last_order_date string was scored
C2_Witness ==
    /\ customer_data.last_order_date = BadStr
    /\ assessment.exc = "none"
    /\ assessment.val.churn_risk = "High"
    /\ assessment.val.health_score = 0

\* the snapshot with every absent or None field replaced by its default
WithDefaults(c) ==
    [f \in Fields |->
        IF c[f].t \in {"missing", "null"}
            THEN (IF f = "last_order_date" THEN Null ELSE Num(0))
            ELSE c[f]]

\* C3: a snapshot with a field missing or None is scored like the snapshot
\* with that field replaced by its default, and not by the fallback.
C3_AbsentOrNullFieldsTakeDefaults ==
    (/\ assessment.exc # "unscored"
     /\ WellTyped(customer_data)
     /\ \E f \in Fields : customer_data[f].t \in {"missing", "null"}) =>
        /\ NonFailing(assessment)
        /\ assessment = calculate_health_score(WithDefaults(customer_data), now)

\* C4: for all snapshots, future-dated ones included, the returned breakdown
\* has 0 <= recency <= 30, 0 <= frequency <= 25, 0 <= monetary <= 25 and
\* 0 <= support <= 10.
C4_BreakdownWithinBounds ==
    NonFailing(assessment) =>
        LET b == assessment.val.score_breakdown
        IN  /\ 0 <= b["recency"] /\ b["recency"] <= 3000
            /\ 0 <= b["frequency"] /\ b["frequency"] <= 2500
            /\ 0 <= b["monetary"] /\ b["monetary"] <= 2500
            /\ 0 <= b["support"] /\ b["support"] <= 1000

\* round(total_spent * (1 + health_score / 100), 2) from the returned
\* health_score (hundredths), in cents
UpliftByReturnedScore(total_spent, health_score) ==
    LET p == MulDivMod(total_spent, 10000 + health_score, 10000)
    IN  RoundQR(p.q, p.r, 10000)

\* C5: on the non-failing path lifetime_value equals
\* total_spent * (1 + health_score / 100) rounded to 2 decimals, health_score
\* being the value returned in the same assessment.
C5_LifetimeValueFromReturnedScore ==
    (NonFailing(assessment) /\ customer_data.total_spent.t = "num") =>
        assessment.val.lifetime_value =
            UpliftByReturnedScore(customer_data.total_spent.v,
                                  assessment.val.health_score)


\* the churn explanation step produced a prediction for the stored customer
Explained == response.status = 200 /\ Len(response.predictions) = 1

FactorSequence ==
    <<LowPurchaseFrequency, HighSupportTicketVolume, LowProductSatisfaction,
      NoRecentPurchases>>

\* days between the evaluation instant and a stored datetime
DaysSince(last_order_date) == (now - last_order_date.v) \div TicksPerDay

LastOrderDatePresent == customer_data.last_order_date.t \notin {"missing", "null"}

Triggered(factor) ==
    CASE factor = LowPurchaseFrequency ->
            dict_get(customer_data, "total_orders", Num(0)).v < 2
      [] factor = HighSupportTicketVolume ->
            dict_get(customer_data, "support_tickets", Num(0)).v > 3
      [] factor = LowProductSatisfaction ->
            dict_get(customer_data, "avg_rating", Num(0)).v < 300
      [] factor = NoRecentPurchases ->
            LastOrderDatePresent /\ DaysSince(customer_data.last_order_date) > 90

\* C6: key_factors is exactly the sub-list of the fixed factor sequence whose
\* triggers hold, in that order; an absent last_order_date never yields
\* "No recent purchases" and exactly 90 days does not trigger it.
C6_KeyFactorsAreTriggeredSublist ==
    Explained =>
        LET key_factors == response.predictions[1].key_factors
        IN  /\ key_factors = SelectSeq(FactorSequence, Triggered)
            /\ ~LastOrderDatePresent => NoRecentPurchases \notin Range(key_factors)
            /\ (LastOrderDatePresent /\ DaysSince(customer_data.last_order_date) = 90)
                   => NoRecentPurchases \notin Range(key_factors)

\* C6 witness: all four factors triggered, last order 91 days ago
C6_Witness ==
    /\ Explained
    /\ response.predictions[1].key_factors = FactorSequence
    /\ DaysSince(customer_data.last_order_date) = 91

RecommendationFor(factor) ==
    CASE factor = LowPurchaseFrequency -> "Send personalized product recommendations"
      [] factor = HighSupportTicketVolume -> "Assign dedicated account manager"
      [] factor = LowProductSatisfaction -> "Offer product training or alternatives"
      [] factor = NoRecentPurchases -> "Send re-engagement campaign with discount"

\* C7: recommended_actions has the length of key_factors, at most 4, and its
\* i-th element is the table's recommendation for the i-th key factor.
C7_RecommendationsParallelFactors ==
    Explained =>
        LET p == response.predictions[1]
        IN  /\ Len(p.recommended_actions) = Len(p.key_factors)
            /\ Len(p.key_factors) <= 4
            /\ \A i \in 1..Len(p.key_factors) :
                   p.recommended_actions[i] = RecommendationFor(p.key_factors[i])

\* C7 witness: two factors, the second and the fourth, with their two
\* recommendations
C7_Witness ==
    /\ Explained
    /\ response.predictions[1].key_factors =
           <<HighSupportTicketVolume, NoRecentPurchases>>
    /\ response.predictions[1].recommended_actions =
           <<"Assign dedicated account manager",
             "Send re-engagement campaign with discount">>

\* a snapshot the scorer accepts: numeric counts and rating, last_order_date
\* absent, a datetime, a date or an ISO string
AcceptedByScorer(c) ==
    /\ \A f \in NumericFields : c[f].t = "num"
    /\ c.last_order_date.t \in {"missing", "null", "datetime", "date", "isostr"}

\* C8: for any snapshot accepted by the scorer the churn-predictions request
\* never ends in an error.
C8_ExplanationIsTotal ==
    (response.status # 0 /\ AcceptedByScorer(customer_data)) => response.status = 200

Value(c, f) == dict_get(c, f, Num(0)).v
DaysOf(c) == days_since_last_order(last_order_date_of(c), now).val
OnlyChanged(f) == \A g \in Fields \ {f} : customer_data'[g] = customer_data[g]

\* C9: with the other inputs and the evaluation instant fixed, health_score is
\* non-increasing in days since last order and in support_tickets, and
\* non-decreasing in total_orders, total_spent and avg_rating.
C9_Step ==
    (NonFailing(assessment) /\ NonFailing(assessment') /\ now' = now) =>
        LET before == assessment.val.health_score
            after == assessment'.val.health_score
            grows(f) == OnlyChanged(f) /\ Value(customer_data', f) >= Value(customer_data, f)
        IN  /\ grows("total_orders") => after >= before
            /\ grows("total_spent") => after >= before
            /\ grows("avg_rating") => after >= before
            /\ grows("support_tickets") => after <= before
            /\ (OnlyChanged("last_order_date")
                    /\ DaysOf(customer_data') >= DaysOf(customer_data))
                   => after <= before

C9_ScoreIsMonotone == [][C9_Step]_vars

\* C9 witness: a non-failing score strictly inside the range, which every
\* input can still move: 1 point of recency, 2 orders, 3 tickets
C9_Witness ==
    /\ NonFailing(assessment)
    /\ assessment.val.score_breakdown["recency"] = 100
    /\ customer_data.total_orders = Num(2)
    /\ customer_data.support_tickets = Num(3)
    /\ customer_data.avg_rating = Num(300)
    /\ customer_data.total_spent = Num(49960)

\* total_orders, total_spent, support_tickets >= 0, 0 <= avg_rating <= 5,
\* last_order_date absent or not later than the evaluation instant
DomainConforming(c) ==
    /\ \A f \in NumericFields : c[f].t = "num" /\ c[f].v >= 0
    /\ c.avg_rating.v <= 500
    /\ \/ c.last_order_date.t \in {"missing", "null"}
       \/ /\ c.last_order_date.t \in {"datetime", "date", "isostr"}
          /\ c.last_order_date.v <= now

\* C10: for every domain-conforming snapshot health_score lies in [0, 100].
C10_ScoreWithinRange ==
    (assessment.exc # "unscored" /\ DomainConforming(customer_data)) =>
        /\ assessment.exc = "none"
        /\ assessment.val.health_score >= 0
        /\ assessment.val.health_score <= 10000

\* C10 witness: every sub-score saturated, the score is exactly 100
C10_Witness ==
    /\ DomainConforming(customer_data)
    /\ NonFailing(assessment)
    /\ assessment.val.health_score = 10000


\* the never-ordered empty snapshot: no last_order_date, every count zero
NeverOrderedEmpty(c) ==
    /\ c.last_order_date.t \in {"missing", "null"}
    /\ \A f \in NumericFields : c[f] = Num(0)

\* C12: for the never-ordered empty snapshot days since last order is 365,
\* recency is 0 and the assessment is health_score 10.0, churn_risk High,
\* lifetime_value 0.0.
C12_EmptySnapshotScoresTen ==
    (assessment.exc # "unscored" /\ NeverOrderedEmpty(customer_data)) =>
        /\ days_since_last_order(last_order_date_of(customer_data), now) = Returned(365)
        /\ NonFailing(assessment)
        /\ assessment.val.score_breakdown["recency"] = 0
        /\ assessment.val.health_score = 1000
        /\ assessment.val.churn_risk = "High"
        /\ assessment.val.lifetime_value = 0

\* C12 witness: the empty snapshot, its last_order_date key absent, was scored
C12_Witness ==
    /\ NeverOrderedEmpty(customer_data)
    /\ customer_data.last_order_date = Missing
    /\ NonFailing(assessment)
    /\ assessment.val.score_breakdown["support"] = 1000

\* the last order is dated on the day of the evaluation instant
DatedOnEvaluationDay(c) ==
    /\ c.last_order_date.t \in {"datetime", "date", "isostr"}
    /\ c.last_order_date.v \div TicksPerDay = now \div TicksPerDay

\* C13: with the last order dated on the evaluation day, total_orders >= 13,
\* total_spent >= 2500, no support ticket and avg_rating 5, the assessment is
\* health_score 100.0, churn_risk Low, lifetime_value 2 * total_spent.
C13_SaturatedSnapshotScoresHundred ==
    (/\ assessment.exc # "unscored"
     /\ DatedOnEvaluationDay(customer_data)
     /\ customer_data.total_orders.t = "num" /\ customer_data.total_orders.v >= 13
     /\ customer_data.total_spent.t = "num" /\ customer_data.total_spent.v >= 250000
     /\ customer_data.support_tickets = Num(0)
     /\ customer_data.avg_rating = Num(500)) =>
        /\ NonFailing(assessment)
        /\ assessment.val.health_score = 10000
        /\ assessment.val.churn_risk = "Low"
        /\ assessment.val.lifetime_value = 2 * customer_data.total_spent.v

\* the step is the find_one of a customer-details request for customer_id
FindsCustomer(customer_id) ==
    /\ details.pc \in {"idle", "done"}
    /\ details' # details
    /\ details'.customer_id = customer_id

Stored(customer_id) == \E c \in db.customers : c.customer_id = customer_id

\* C14: a customer-details request for a customer_id that is not in the
\* customers collection ends, at its find_one, with 404 'Customer not found'
\* (not with 500, not with 200 and empty data) and changes no collection.
C14_AbsentCustomerIsNotFound ==
    [][\A customer_id \in CustomerIds :
        (FindsCustomer(customer_id) /\ ~Stored(customer_id)) =>
            /\ details'.pc = "done"
            /\ details'.status = 404
            /\ details'.detail = "Customer not found"
            /\ details'.body = NoDetails
            /\ db' = db]_allvars

\* C14 witness: a request answered 404 for an id that the non-empty
\* customers collection does not hold
C14_Witness ==
    /\ details.pc = "done"
    /\ details.status = 404
    /\ db.customers # {}
    /\ ~Stored(details.customer_id)

\* the stored customer document of a returned prediction
Persisted(prediction) ==
    CHOOSE c \in db.customers : c.customer_id = prediction.customer_id

\* C15: a churn-predictions response holds only customers whose persisted
\* churn_risk is High, at most limit of them, in ascending order of persisted
\* health_score, and leaves out no High customer of lower health_score than
\* one it returns.
C15_PredictionsAreLowestHighRisk ==
    [][(predictions' # predictions /\ predictions'.status = 200) =>
        LET body == predictions'.body
        IN  /\ \A i \in DOMAIN body :
                /\ Stored(body[i].customer_id)
                /\ Persisted(body[i]).churn_risk = "High"
            /\ Len(body) <= predictions'.limit
            /\ \A i, j \in DOMAIN body :
                i < j => Persisted(body[i]).health_score
                            <= Persisted(body[j]).health_score
            /\ \A i \in DOMAIN body : \A c \in db.customers :
                (c.churn_risk = "High"
                    /\ c.health_score < Persisted(body[i]).health_score)
                => \E j \in DOMAIN body : body[j].customer_id = c.customer_id
      ]_allvars

\* C15 witness: limit 1 cut the answer to the lower of two High customers of
\* different health_score
C15_Witness ==
    /\ predictions.status = 200
    /\ predictions.limit = 1
    /\ Len(predictions.body) = 1
    /\ Stored(predictions.body[1].customer_id)
    /\ \E c \in db.customers :
        /\ c.churn_risk = "High"
        /\ c.health_score > Persisted(predictions.body[1]).health_score
    /\ \E c \in db.customers : c.churn_risk # "High"

\* the step on which the generate-sample-data request of client completes
\* with a 200
Succeeds(client) ==
    /\ generating[client].pc # "done"
    /\ generating'[client].pc = "done"
    /\ generating'[client].status = 200

\* C16: when a generate-sample-data(n) request completes successfully, the
\* customers collection holds exactly the n customers that request generated,
\* and the orders, tickets and feedback stored are those of that request
\* alone, whatever other generate-sample-data requests run concurrently.
C16_CompletedGenerateLeavesOnlyItsBatch ==
    [][\A client \in Clients :
        Succeeds(client) =>
            LET batch == generating'[client].customers
            IN  /\ db'.customers = Range(batch)
                /\ Cardinality(db'.customers) = generating'[client].num_customers
                /\ db'.orders = OrdersOf(batch)
                /\ db'.support_tickets = TicketsOf(batch)
                /\ db'.feedback = FeedbackOf(batch)]_allvars

\* C17: in every dashboard-metrics response the three risk counts add up to
\* total_customers, and churn_rate is high_risk_customers / total_customers
\* * 100 (to two decimals), 0 when total_customers is 0, also when a
\* generate-sample-data request runs between the request's database calls.
C17_MetricsCountsAddUp ==
    (metrics.pc = "done" /\ metrics.status = 200) =>
        LET body == metrics.body
        IN  /\ body.high_risk_customers + body.medium_risk_customers
                + body.low_risk_customers = body.total_customers
            /\ body.total_customers > 0 =>
                body.churn_rate = RoundHalfEven(
                    body.high_risk_customers * 10000, body.total_customers)
            /\ body.total_customers = 0 => body.churn_rate = 0

====
